---- MODULE Spec2Model ----
(***************************************************************************)
(* Local (in-memory) pagination feature of ngrx-toolkit:                   *)
(* libs/ngrx-toolkit/src/lib/with-pagination.ts                            *)
(*                                                                         *)
(* Three specifications share the variables below.                         *)
(*   Spec          - the store: a patch producer is called and the         *)
(*                   container merges the returned patch in one step;      *)
(*                   the entity list changes under the feature.            *)
(*   SpecQueue     - nextPage patches are produced, stay in flight and     *)
(*                   are merged later, one at a time.                      *)
(*   SpecPageArray - createPageArray applied to bounded arguments.         *)
(***************************************************************************)
EXTENDS Integers, Sequences, FiniteSets, TLC

VARIABLES
    currentPage,   \* state key 'currentPage'
    pageSize,      \* state key 'pageSize'
    entities,      \* the entity list owned by the entity feature
    patch,         \* the patch object the container merged last
    prior,         \* the value of currentPage the last merge started from
    pending,       \* patches returned by producers, not yet merged
    startPage,     \* currentPage when the first pending patch was produced
    issued,        \* number of nextPage patches produced so far
    args,          \* arguments of the createPageArray call
    pages,         \* array returned by the createPageArray call
    called         \* TRUE once createPageArray has returned

vars == <<currentPage, pageSize, entities, patch, prior, pending, startPage,
          issued, args, pages, called>>

storeVars == <<currentPage, pageSize, entities>>
queueVars == <<pending, startPage, issued>>
callVars == <<args, pages, called>>

----------------------------------------------------------------------------
(* Bounds of the model *)

MaxEntities == 3
MaxPage == 4
MaxPageSize == 3
MaxPending == 5
MaxCurrent == 13
MaxItemsPerPage == 2
MaxTotalItems == 12
MaxRange == 8

(* Defaults set by withState *)

DefaultPage == 1
DefaultPageSize == 10
DefaultNavigationArrayMax == 7

EntityIds == 1..MaxEntities
PageArgs == -1..MaxPage
PageSizeArgs == 0..MaxPageSize

----------------------------------------------------------------------------
(* JavaScript numbers: an integer, Infinity or NaN *)

Num(n) == [kind |-> "number", n |-> n]
Infinity == [kind |-> "Infinity", n |-> 0]
NaN == [kind |-> "NaN", n |-> 0]

Max(a, b) == IF a >= b THEN a ELSE b
Min(a, b) == IF a <= b THEN a ELSE b

\* Math.ceil(a / b) for integers a >= 0, b >= 0
MathCeilDiv(a, b) ==
    IF b = 0
    THEN IF a = 0 THEN NaN ELSE Infinity
    ELSE Num(0 - ((0 - a) \div b))

\* x > y for an integer x and a JavaScript number y
GreaterThan(x, y) ==
    CASE y.kind = "NaN" -> FALSE
      [] y.kind = "Infinity" -> FALSE
      [] OTHER -> x > y.n

\* Array.prototype.slice(start, end)
ArraySlice(s, start, end) ==
    LET len == Len(s)
        from == IF start < 0 THEN Max(len + start, 0) ELSE Min(start, len)
        to == IF end < 0 THEN Max(len + end, 0) ELSE Min(end, len)
    IN IF from >= to THEN <<>> ELSE [i \in 1..(to - from) |-> s[from + i]]

----------------------------------------------------------------------------
(* Derived signals of withPagination *)

selectedPageEntitiesZeroBased ==
    IF currentPage < 0
       \/ pageSize = 0
       \/ GreaterThan(currentPage, MathCeilDiv(Len(entities), pageSize))
    THEN <<>>
    ELSE ArraySlice(entities, currentPage * pageSize,
                    (currentPage + 1) * pageSize)

selectedPageEntities ==
    IF currentPage < 0
       \/ pageSize = 0
       \/ GreaterThan(currentPage, MathCeilDiv(Len(entities), pageSize))
    THEN <<>>
    ELSE ArraySlice(entities, (currentPage - 1) * pageSize,
                    currentPage * pageSize)

totalCount == Len(entities)

pageCountOf(totalCountValue, pageSizeValue) ==
    IF totalCountValue = 0
    THEN Num(0)
    ELSE MathCeilDiv(totalCountValue, pageSizeValue)

pageCount == pageCountOf(Len(entities), pageSize)

----------------------------------------------------------------------------
(* Patch producers.  A patch names a state key and carries either a value  *)
(* or an updater function of the key's current value.                      *)

ValuePatch(k, v) == [key |-> k, kind |-> "value", value |-> v, updater |-> "none"]
UpdaterPatch(k, u) == [key |-> k, kind |-> "updater", value |-> 0, updater |-> u]
NoPatch == [key |-> "none", kind |-> "none", value |-> 0, updater |-> "none"]
EntitiesChange == [key |-> "entities", kind |-> "none", value |-> 0, updater |-> "none"]

gotoPage(page) == ValuePatch("currentPage", page)

setPageSize(size) == ValuePatch("pageSize", size)

nextPage == UpdaterPatch("currentPage", "nextPage")

previousPage == UpdaterPatch("currentPage", "previousPage")

firstPage == ValuePatch("currentPage", 1)

\* (currentPage) => currentPage++   returns the value before the increment
nextPageUpdaterPostIncrement(cp) == cp

\* (currentPage: number) => currentPage + 1
nextPageUpdater(cp) == cp + 1

\* (currentPage) => currentPage - 1   without the floor
previousPageUpdaterUnclamped(cp) == cp - 1

\* (currentPage: number) => Math.max(currentPage - 1, 1)
previousPageUpdater(cp) == Max(cp - 1, 1)

----------------------------------------------------------------------------
(* The container merges a patch atomically: a value replaces the key, an   *)
(* updater is evaluated on the key's value at the moment of the merge.     *)

Resolve(p, old) ==
    IF p.kind = "value" THEN p.value
    ELSE IF p.updater = "nextPage" THEN nextPageUpdater(old)
    ELSE previousPageUpdater(old)

patchState(p) ==
    /\ currentPage' = IF p.key = "currentPage" THEN Resolve(p, currentPage)
                      ELSE currentPage
    /\ pageSize' = IF p.key = "pageSize" THEN Resolve(p, pageSize)
                   ELSE pageSize
    /\ patch' = p
    /\ prior' = currentPage
    /\ UNCHANGED entities

----------------------------------------------------------------------------
(* Spec: the store *)

Init ==
    /\ currentPage = DefaultPage
    /\ pageSize = DefaultPageSize
    /\ entities = <<>>
    /\ patch = NoPatch
    /\ prior = DefaultPage
    /\ pending = <<>>
    /\ startPage = DefaultPage
    /\ issued = 0
    /\ args = [currentPage |-> DefaultPage, itemsPerPage |-> DefaultPageSize,
               totalItems |-> 0, paginationRange |-> DefaultNavigationArrayMax]
    /\ pages = <<>>
    /\ called = FALSE

GotoPage ==
    /\ \E p \in PageArgs : patchState(gotoPage(p))
    /\ UNCHANGED <<queueVars, callVars>>

SetPageSize ==
    /\ \E n \in PageSizeArgs : patchState(setPageSize(n))
    /\ UNCHANGED <<queueVars, callVars>>

NextPage ==
    /\ currentPage < MaxPage
    /\ patchState(nextPage)
    /\ UNCHANGED <<queueVars, callVars>>

PreviousPage ==
    /\ patchState(previousPage)
    /\ UNCHANGED <<queueVars, callVars>>

FirstPage ==
    /\ patchState(firstPage)
    /\ UNCHANGED <<queueVars, callVars>>

InSeq(e, s) == \E i \in 1..Len(s) : s[i] = e

AddEntity ==
    /\ Len(entities) < MaxEntities
    /\ \E e \in EntityIds :
         /\ ~InSeq(e, entities)
         /\ entities' = Append(entities, e)
    /\ patch' = EntitiesChange
    /\ prior' = currentPage
    /\ UNCHANGED <<currentPage, pageSize, queueVars, callVars>>

RemoveEntity ==
    /\ \E i \in 1..Len(entities) :
         entities' = SubSeq(entities, 1, i - 1) \o
                     SubSeq(entities, i + 1, Len(entities))
    /\ patch' = EntitiesChange
    /\ prior' = currentPage
    /\ UNCHANGED <<currentPage, pageSize, queueVars, callVars>>

Next ==
    \/ GotoPage
    \/ SetPageSize
    \/ NextPage
    \/ PreviousPage
    \/ FirstPage
    \/ AddEntity
    \/ RemoveEntity

Spec == Init /\ [][Next]_vars

----------------------------------------------------------------------------
(* SpecQueue: nextPage patches in flight.  The store holds some page       *)
(* (set by an earlier gotoPage); callers produce nextPage patches and the  *)
(* container merges the pending patches in call order, one per step.       *)

InitQueue ==
    /\ currentPage \in PageArgs
    /\ pageSize = DefaultPageSize
    /\ entities = <<>>
    /\ patch = NoPatch
    /\ prior = currentPage
    /\ pending = <<>>
    /\ startPage = currentPage
    /\ issued = 0
    /\ args = [currentPage |-> DefaultPage, itemsPerPage |-> DefaultPageSize,
               totalItems |-> 0, paginationRange |-> DefaultNavigationArrayMax]
    /\ pages = <<>>
    /\ called = FALSE

ProduceNextPage ==
    /\ issued < MaxPending
    /\ pending' = Append(pending, nextPage)
    /\ issued' = issued + 1
    /\ UNCHANGED <<storeVars, patch, prior, startPage, callVars>>

ApplyPending ==
    /\ pending # <<>>
    /\ patchState(Head(pending))
    /\ pending' = Tail(pending)
    /\ UNCHANGED <<startPage, issued, callVars>>

NextQueue ==
    \/ ProduceNextPage
    \/ ApplyPending

SpecQueue == InitQueue /\ [][NextQueue]_vars

----------------------------------------------------------------------------
(* createPageArray, for itemsPerPage > 0 and totalItems >= 0 (the quotient *)
(* totalItems / itemsPerPage is then finite).  A Page is                   *)
(* [label, value]; a label is a number or the string '...'.                *)

NumberLabel(n) == [kind |-> "number", n |-> n]
EllipsisLabel == [kind |-> "...", n |-> 0]

\* Math.max(Math.ceil(totalItems / itemsPerPage), 1)
totalPagesOf(totalItems, itemsPerPage) ==
    Max(MathCeilDiv(totalItems, itemsPerPage).n, 1)

\* Math.floor(paginationRange / 2)
halfWayOfFloor(paginationRange) == paginationRange \div 2

\* Math.ceil(paginationRange / 2)
halfWayOf(paginationRange) == 0 - ((0 - paginationRange) \div 2)

\* the values computed before the loop
Context(cp, itemsPerPage, totalItems, paginationRange) ==
    LET totalPages == totalPagesOf(totalItems, itemsPerPage)
        halfWay == halfWayOf(paginationRange)
        isStart == cp <= halfWay
        isEnd == totalPages - halfWay < cp
    IN [currentPage |-> cp,
        paginationRange |-> paginationRange,
        totalPages |-> totalPages,
        halfWay |-> halfWay,
        isStart |-> isStart,
        isEnd |-> isEnd,
        isMiddle |-> ~isStart /\ ~isEnd,
        ellipsesNeeded |-> paginationRange < totalPages]

\* i <= paginationRange   without the totalPages bound
loopConditionRangeOnly(i, c) == i <= c.paginationRange

\* i <= totalPages && i <= paginationRange
loopCondition(i, c) == i <= c.totalPages /\ i <= c.paginationRange

\* the page number of slot i without forcing the last slot to totalPages
pageNumberOfUnforced(i, c) ==
    IF c.ellipsesNeeded
    THEN IF c.isEnd THEN c.totalPages - c.paginationRange + i
         ELSE IF c.isMiddle THEN c.currentPage - c.halfWay + i
         ELSE i
    ELSE i

\* the page number of slot i
pageNumberOf(i, c) ==
    IF i = c.paginationRange
    THEN c.totalPages
    ELSE IF c.ellipsesNeeded
         THEN IF c.isEnd THEN c.totalPages - c.paginationRange + i
              ELSE IF c.isMiddle THEN c.currentPage - c.halfWay + i
              ELSE i
         ELSE i

\* the label of slot i with the closing ellipsis one slot too late
labelOfLateClosing(i, c, pageNumber) ==
    LET openingEllipsesNeeded == i = 2 /\ (c.isMiddle \/ c.isEnd)
        closingEllipsesNeeded ==
            i = c.paginationRange /\ (c.isMiddle \/ c.isStart)
    IN IF c.ellipsesNeeded /\ (openingEllipsesNeeded \/ closingEllipsesNeeded)
       THEN EllipsisLabel
       ELSE NumberLabel(pageNumber)

\* the label of slot i
labelOf(i, c, pageNumber) ==
    LET openingEllipsesNeeded == i = 2 /\ (c.isMiddle \/ c.isEnd)
        closingEllipsesNeeded ==
            i = c.paginationRange - 1 /\ (c.isMiddle \/ c.isStart)
    IN IF c.ellipsesNeeded /\ (openingEllipsesNeeded \/ closingEllipsesNeeded)
       THEN EllipsisLabel
       ELSE NumberLabel(pageNumber)

\* for (let i = 1; ...; i++) { ...; pages.push({ label, value: pageNumber }) }
RECURSIVE pageLoop(_, _, _)
pageLoop(i, acc, c) ==
    IF loopCondition(i, c)
    THEN LET pageNumber == pageNumberOf(i, c)
         IN pageLoop(i + 1,
                     Append(acc, [label |-> labelOf(i, c, pageNumber),
                                  value |-> pageNumber]),
                     c)
    ELSE acc

createPageArray(cp, itemsPerPage, totalItems, paginationRange) ==
    pageLoop(1, <<>>, Context(cp, itemsPerPage, totalItems, paginationRange))

----------------------------------------------------------------------------
(* SpecPageArray: one call of createPageArray on bounded arguments *)

CurrentPageArgs == -1..MaxCurrent
ItemsPerPageArgs == (1..MaxItemsPerPage) \cup {DefaultPageSize}
TotalItemsArgs == (0..MaxTotalItems) \cup {30, 95}
RangeArgs == 1..MaxRange

InitPageArray ==
    /\ currentPage = DefaultPage
    /\ pageSize = DefaultPageSize
    /\ entities = <<>>
    /\ patch = NoPatch
    /\ prior = DefaultPage
    /\ pending = <<>>
    /\ startPage = DefaultPage
    /\ issued = 0
    /\ args \in [currentPage : CurrentPageArgs,
                 itemsPerPage : ItemsPerPageArgs,
                 totalItems : TotalItemsArgs,
                 paginationRange : RangeArgs]
    /\ pages = <<>>
    /\ called = FALSE

CallCreatePageArray ==
    /\ ~called
    /\ pages' = createPageArray(args.currentPage, args.itemsPerPage,
                                args.totalItems, args.paginationRange)
    /\ called' = TRUE
    /\ UNCHANGED <<storeVars, patch, prior, queueVars, args>>

NextPageArray == CallCreatePageArray

SpecPageArray == InitPageArray /\ [][NextPageArray]_vars

----------------------------------------------------------------------------
(* Properties of the store (Spec) *)

\* the slice of the entity list at positions (currentPage-1)*pageSize up to
\* but excluding currentPage*pageSize, truncated at the end of the list
PageSliceOfEntities ==
    LET first == (currentPage - 1) * pageSize
        last == Min(currentPage * pageSize, Len(entities))
    IN [i \in 1..(last - first) |-> entities[first + i]]

\* C1: selectedPageEntities is empty whenever currentPage < 1 (currentPage = 0
\* included), pageSize = 0 or currentPage > pageCount; otherwise it is the
\* contiguous slice of the current page, truncated at the end of the list.
C1_SelectedPageIsSlice ==
    selectedPageEntities =
        IF currentPage < 1
           \/ pageSize = 0
           \/ GreaterThan(currentPage, pageCount)
        THEN <<>>
        ELSE PageSliceOfEntities

C1_Witness ==
    /\ currentPage = 2
    /\ pageSize = 2
    /\ Len(entities) = 3
    /\ selectedPageEntities = <<entities[3]>>

\* C2: whenever pageSize = 0, for every entity list, selectedPageEntities is
\* empty and pageCount equals 0 (no Infinity or NaN appears in pageCount).
C2_ZeroPageSizeGivesZeroPageCount ==
    pageSize = 0 => selectedPageEntities = <<>> /\ pageCount = Num(0)

\* C7: a previousPage patch sets currentPage to max(p - 1, 1) for any held
\* value p, so the page is >= 1 right after it; nextPage, previousPage and
\* firstPage keep a page that is >= 1 at >= 1; nextPage is never clamped
\* (it adds one even beyond pageCount, where selectedPageEntities is empty).
C7_PreviousPageFloorsAtOne ==
    /\ patch = previousPage =>
         currentPage = Max(prior - 1, 1) /\ currentPage >= 1
    /\ patch \in {nextPage, previousPage, firstPage} /\ prior >= 1 =>
         currentPage >= 1
    /\ patch = nextPage => currentPage = prior + 1
    /\ patch = nextPage /\ GreaterThan(currentPage, pageCount) =>
         selectedPageEntities = <<>>

C7_Witness ==
    /\ patch = previousPage
    /\ prior <= 0
    /\ currentPage = 1

----------------------------------------------------------------------------
(* Properties of patches in flight (SpecQueue) *)

\* C8: a nextPage patch increments the page held when the container merges
\* it: after k patches were produced from page p, under every interleaving
\* of producing and merging, currentPage plus the number of patches still
\* pending is p + k (so currentPage = p + k once all are merged), and
\* producing a patch changes no state of the store.
C8_NoIncrementLost ==
    /\ [](currentPage + Len(pending) = startPage + issued)
    /\ [][Len(pending') > Len(pending) => UNCHANGED storeVars]_vars

C8_Witness ==
    /\ issued >= 2
    /\ pending = <<>>
    /\ currentPage = startPage + issued

----------------------------------------------------------------------------
(* Properties of createPageArray (SpecPageArray) *)

\* the least n >= 1 with n * itemsPerPage >= totalItems
RefTotalPages ==
    CHOOSE n \in 1..(args.totalItems + 1) :
        /\ n * args.itemsPerPage >= args.totalItems
        /\ \A m \in 1..(n - 1) : m * args.itemsPerPage < args.totalItems

\* the least h with 2 * h >= paginationRange
RefHalfWay ==
    CHOOSE h \in 0..args.paginationRange :
        /\ 2 * h >= args.paginationRange
        /\ \A m \in 0..(h - 1) : 2 * m < args.paginationRange

AtStart == args.currentPage <= RefHalfWay
AtEnd == RefTotalPages - RefHalfWay < args.currentPage
AtMiddle == ~AtStart /\ ~AtEnd

EllipsisSlots == {i \in 1..Len(pages) : pages[i].label = EllipsisLabel}

\* C3: the array has exactly min(totalPages, paginationRange) entries; with
\* totalItems = 0 it has exactly one entry, for page 1, although the derived
\* pageCount is 0.
C3_LengthIsMinOfPagesAndRange ==
    called =>
        /\ Len(pages) = Min(RefTotalPages, args.paginationRange)
        /\ args.totalItems = 0 =>
             /\ pages = <<[label |-> NumberLabel(1), value |-> 1]>>
             /\ pageCountOf(args.totalItems, args.itemsPerPage) = Num(0)

C3_Witness ==
    /\ called
    /\ args.totalItems = 0
    /\ args.paginationRange > 1
    /\ Len(pages) = 1

\* C4: the value of the last entry equals totalPages, both when the range is
\* smaller than totalPages and when it is at least totalPages.
C4_LastEntryIsTotalPages ==
    called => pages[Len(pages)].value = RefTotalPages

C4_Witness ==
    /\ called
    /\ args.paginationRange < RefTotalPages
    /\ AtStart
    /\ Len(pages) = args.paginationRange
    /\ pages[Len(pages)].value = RefTotalPages

CurrentPageShown ==
    \E i \in 1..Len(pages) :
        /\ pages[i].label = NumberLabel(args.currentPage)
        /\ pages[i].value = args.currentPage

\* C5 (as stated): for every positive paginationRange and every currentPage
\* in 1..totalPages the array has an entry labelled with the number
\* currentPage.
C5_CurrentPageAlwaysShown ==
    called /\ 1 <= args.currentPage /\ args.currentPage <= RefTotalPages =>
        CurrentPageShown

\* C5 (amended): for every currentPage in 1..totalPages the array has an
\* entry labelled with the number currentPage, provided paginationRange >= 5
\* or paginationRange >= totalPages.
C5_CurrentPageShownForRangeAtLeastFive ==
    /\ called
    /\ 1 <= args.currentPage
    /\ args.currentPage <= RefTotalPages
    /\ (args.paginationRange >= 5 \/ args.paginationRange >= RefTotalPages)
    => CurrentPageShown

C5_Witness ==
    /\ called
    /\ args.paginationRange >= 5
    /\ args.paginationRange < RefTotalPages
    /\ AtMiddle
    /\ CurrentPageShown

\* C6: when the position is start or middle, the first entry has value 1.
C6_FirstEntryIsPageOne ==
    called /\ (AtStart \/ AtMiddle) => pages[1].value = 1

\* C9: an ellipsis label stands only where pages are hidden: an ellipsis in
\* slot 2 implies the value of slot 1 is greater than 1, and an ellipsis in
\* slot paginationRange-1 implies a page number lies strictly between that
\* entry's value and totalPages.
C9_EllipsisOnlyWherePagesHidden ==
    called =>
        /\ 2 \in EllipsisSlots => pages[1].value > 1
        /\ (args.paginationRange - 1) \in EllipsisSlots =>
             pages[args.paginationRange - 1].value + 1 < RefTotalPages

\* slot values of the reference pager
RefValueOf(i) ==
    IF i = args.paginationRange THEN RefTotalPages
    ELSE IF AtStart THEN i
    ELSE IF AtMiddle THEN args.currentPage - RefHalfWay + i
    ELSE RefTotalPages - args.paginationRange + i

AllPagesPlain ==
    pages = [i \in 1..RefTotalPages |-> [label |-> NumberLabel(i), value |-> i]]

RefValues ==
    /\ Len(pages) = args.paginationRange
    /\ \A i \in 1..Len(pages) : pages[i].value = RefValueOf(i)

Scenario(cp) ==
    args = [currentPage |-> cp, itemsPerPage |-> 10, totalItems |-> 95,
            paginationRange |-> 7]

\* 95 items, 10 per page, range 7: page 1 has one ellipsis at slot 6, page 5
\* at slots 2 and 6, page 10 at slot 2; the last slot is 10 in all three
Scenarios ==
    /\ Scenario(1) => EllipsisSlots = {6} /\ pages[7].value = 10
    /\ Scenario(5) => EllipsisSlots = {2, 6} /\ pages[7].value = 10
    /\ Scenario(10) => EllipsisSlots = {2} /\ pages[7].value = 10

\* C10 (as stated): for paginationRange >= 3 the array equals the reference
\* pager, with the ellipsis on slot 2 exactly when the position is middle or
\* end, on slot paginationRange-1 exactly when it is middle or start, and
\* every other slot labelled with its own value.
C10_EqualsReferencePager ==
    called /\ args.paginationRange >= 3 =>
        IF args.paginationRange >= RefTotalPages
        THEN AllPagesPlain
        ELSE /\ RefValues
             /\ 2 \in EllipsisSlots <=> (AtMiddle \/ AtEnd)
             /\ (args.paginationRange - 1) \in EllipsisSlots
                    <=> (AtMiddle \/ AtStart)
             /\ \A i \in 1..Len(pages) \ {2, args.paginationRange - 1} :
                    pages[i].label = NumberLabel(pages[i].value)
             /\ Scenarios

\* C10 (amended): for paginationRange >= 3 the array equals the reference
\* pager, where a slot i carries the ellipsis exactly when i = 2 and the
\* position is middle or end, or i = paginationRange-1 and the position is
\* middle or start (for paginationRange = 3 both are slot 2, which then
\* always carries it), and every other slot is labelled with its own value.
C10_EqualsReferencePagerPerSlot ==
    called /\ args.paginationRange >= 3 =>
        IF args.paginationRange >= RefTotalPages
        THEN AllPagesPlain
        ELSE /\ RefValues
             /\ \A i \in 1..Len(pages) :
                    pages[i].label =
                        IF \/ i = 2 /\ (AtMiddle \/ AtEnd)
                           \/ i = args.paginationRange - 1
                              /\ (AtMiddle \/ AtStart)
                        THEN EllipsisLabel
                        ELSE NumberLabel(pages[i].value)
             /\ Scenarios

C10_Witness ==
    /\ called
    /\ Scenario(5)
    /\ EllipsisSlots = {2, 6}
    /\ pages[7].value = 10

====
